---- MODULE Spec2Model ----
(***************************************************************************)
(* gocv-stream-events: the orchestrator (main), one detection task per     *)
(* configured source (detectFromCapture), the connection goroutine of a    *)
(* stream source, and the Catalog operations the task calls in production  *)
(* mode (getClassId, insertDetections, notifyObservers, hasBeenAlerted,    *)
(* sendMail).                                                              *)
(*                                                                         *)
(* Time is counted in minutes.  An instant is a number of minutes since    *)
(* the start of the run; the alert table stores wall-clock readings of     *)
(* Europe/Helsinki (TIMESTAMP without zone), which hasBeenAlerted reads    *)
(* back as text and parses in the same location.  The modelled window      *)
(* holds no daylight-saving change, so a calendar day is 24 hours.         *)
(*                                                                         *)
(* A Catalog call whose error the code checks may fail (log.Fatal ends the *)
(* process).  The scan error of the last-alert query is discarded by the   *)
(* code: its expected value is sql.ErrNoRows, "no previous alert", which   *)
(* is the answer modelled.                                                 *)
(***************************************************************************)
EXTENDS Integers, Sequences, FiniteSets, TLC

(***************************************************************************)
(* Bounds of the model.                                                    *)
(***************************************************************************)
NumSources == 2     \* entries of the device list
MaxIter == 2        \* loop iterations a task may start
MaxObjs == 1        \* objects a frame's detection may yield
MaxTicks == 2
MaxCoord == 2       \* largest left, top, width and height of a box
BoxSide == 5        \* width and height of the candidates given to the fusion
MaxCands == 3       \* candidates of one frame
MaxScore == 2       \* scores are 0..MaxScore, in units of 1/MaxScore
MaxClasses == 3     \* length of a score vector        \* clock readings that may show a later instant than the last

(***************************************************************************)
(* Program constants.                                                      *)
(***************************************************************************)
IMAGE == 0
VIDEO == 1
STREAM == 2
Unrecognized == -1
Minute == 1
MinutesPerHour == 60
HoursPerDay == 24
Hour == MinutesPerHour * Minute
Day == HoursPerDay * Hour
HelsinkiOffset == 120

(***************************************************************************)
(* Inputs: device addresses (as their tokens: prefix ... suffix), interval *)
(* texts (as their characters), clock advances between two readings.       *)
(***************************************************************************)
Img == <<"nest", ".jpg">>
Vid == <<"nest", ".mp4">>
Cam1 == <<"rtsp", "cam1">>
Cam2 == <<"rtsp", "cam2">>
Usb == <<"usb", "1">>
Devices == {Img, Vid, Cam1, Cam2, Usb}
Observers == {"o1", "o2"}
IntervalTexts ==
    { <<"1", "5", "m">>, <<"1", "h">>, <<"1", "d">>, <<"1", "w">>, <<"0", "m">>, <<"m">> }
Deltas == {15, 60, 1440}

Tasks == 1..NumSources

(***************************************************************************)
(* getDeviceType: the source type of a device address, by its suffix and  *)
(* prefix, in the order the code tests them.                               *)
(***************************************************************************)
HasSuffix(deviceID, suffix) == Len(deviceID) > 0 /\ deviceID[Len(deviceID)] = suffix
HasPrefix(deviceID, prefix) == Len(deviceID) > 0 /\ deviceID[1] = prefix

getDeviceType(deviceID) ==
    IF HasSuffix(deviceID, ".jpg") \/ HasSuffix(deviceID, ".png") THEN IMAGE
    ELSE IF HasSuffix(deviceID, ".mp4") \/ deviceID = <<"0">> THEN VIDEO
    ELSE IF HasPrefix(deviceID, "rtsp") THEN STREAM
    ELSE Unrecognized

(***************************************************************************)
(* fmt.Sscanf(alertInterval, "%d%s", &intervalLength, &intervalType):      *)
(* %d reads the leading decimal digits; with none the scan stops and both  *)
(* variables keep their zero values.  %s reads the characters up to the    *)
(* next space; with none intervalType stays empty.                         *)
(***************************************************************************)
DigitChars == <<"0", "1", "2", "3", "4", "5", "6", "7", "8", "9">>
IsDigit(c) == \E k \in 1..10 : DigitChars[k] = c
DigitValue(c) == (CHOOSE k \in 1..10 : DigitChars[k] = c) - 1

RECURSIVE DigitCount(_)
DigitCount(s) ==
    IF s = <<>> \/ ~IsDigit(Head(s)) THEN 0 ELSE 1 + DigitCount(Tail(s))

RECURSIVE DecimalValue(_, _)
DecimalValue(s, acc) ==
    IF s = <<>> THEN acc ELSE DecimalValue(Tail(s), 10 * acc + DigitValue(Head(s)))

RECURSIVE Token(_)
Token(s) ==
    IF s = <<>> \/ Head(s) = " " THEN <<>> ELSE <<Head(s)>> \o Token(Tail(s))

Sscanf(alertInterval) ==
    LET n == DigitCount(alertInterval) IN
    IF n = 0
    THEN [intervalLength |-> 0, intervalType |-> <<>>]
    ELSE [intervalLength |-> DecimalValue(SubSeq(alertInterval, 1, n), 0),
          intervalType |-> Token(SubSeq(alertInterval, n + 1, Len(alertInterval)))]

(***************************************************************************)
(* Timestamps.  time.Now().In(loc) is an instant; the driver writes its    *)
(* wall-clock reading into the TIMESTAMP column; the last-alert query      *)
(* scans that reading into a string (empty when there is no row), and      *)
(* time.ParseInLocation reads the string as a wall-clock time of loc.      *)
(***************************************************************************)
WallClock(instant) == instant + HelsinkiOffset
FormatTimestamp(created) == <<created>>
ParseInLocation(text) == text[1] - HelsinkiOffset

(***************************************************************************)
(* The switch of hasBeenAlerted on intervalType: TRUE when the function    *)
(* returns true from inside the switch (the throttle is closed).           *)
(***************************************************************************)
\* Variants of the comparison and of the switch, to try the properties on.
AfterOrEqual(t, u) == t >= u
SwitchHourAsMinute(intervalType, intervalLength, lastCaptureTime, captureTime) ==
    IF intervalType = <<"m">>
    THEN lastCaptureTime > captureTime - Minute * intervalLength
    ELSE IF intervalType = <<"h">>
    THEN lastCaptureTime > captureTime - Minute * intervalLength
    ELSE IF intervalType = <<"d">>
    THEN lastCaptureTime > captureTime - Day * intervalLength
    ELSE TRUE

After(t, u) == t > u
AddDate(t, days) == t + days * Day

SwitchIntervalType(intervalType, intervalLength, lastCaptureTime, captureTime) ==
    IF intervalType = <<"m">>
    THEN After(lastCaptureTime, captureTime - Minute * intervalLength)
    ELSE IF intervalType = <<"h">>
    THEN After(lastCaptureTime, captureTime - Hour * intervalLength)
    ELSE IF intervalType = <<"d">>
    THEN After(lastCaptureTime, AddDate(captureTime, -intervalLength))
    ELSE TRUE

(***************************************************************************)
(* Lines 177-199 of hasBeenAlerted: TRUE when it returns true (suppress)   *)
(* without reaching the INSERT.                                            *)
(***************************************************************************)
ReturnsAlerted(intervalType, intervalLength, lastCapture, captureTime) ==
    /\ Len(lastCapture) > 0
    /\ SwitchIntervalType(intervalType, intervalLength,
                          ParseInLocation(lastCapture), captureTime)

(***************************************************************************)
(* The detection helpers of main.go.  A detectedObject is a record of its  *)
(* box and its confidence (in percent); its label, a text made of the      *)
(* class and the confidence, plays no part in the fusion and is left out.  *)
(* A float64 quotient of two integers is kept as the pair of the two; the  *)
(* areas are integers far below 2^53, so the products are exact and the    *)
(* comparison of a quotient with 0.7 is the comparison of 10 * num with    *)
(* 7 * den.                                                                *)
(***************************************************************************)
Max(x, y) == IF x >= y THEN x ELSE y
Min(x, y) == IF x <= y THEN x ELSE y

\* Variants of the helpers below, to try the properties on.
interAreaNoPlusOne(boxA, boxB) ==
    Max(0, Min(boxA[3], boxB[3]) - Max(boxA[1], boxB[1]))
        * Max(0, Min(boxA[4], boxB[4]) - Max(boxA[2], boxB[2]))
interAreaUnguarded(boxA, boxB) ==
    (Min(boxA[3], boxB[3]) - Max(boxA[1], boxB[1]) + 1)
        * (Min(boxA[4], boxB[4]) - Max(boxA[2], boxB[2]) + 1)

\* Lines 322-323: the corners of a box.
Corners(a) == <<a.left, a.top, a.left + a.width, a.top + a.height>>

\* Lines 325-331.
interArea(boxA, boxB) ==
    LET xA == Max(boxA[1], boxB[1])
        yA == Max(boxA[2], boxB[2])
        xB == Min(boxA[3], boxB[3])
        yB == Min(boxA[4], boxB[4])
    IN  Max(0, xB - xA + 1) * Max(0, yB - yA + 1)

\* Lines 334-335.
boxArea(box) == (box[3] - box[1] + 1) * (box[4] - box[2] + 1)

\* A float64 division: a quotient, or what IEEE 754 gives for a zero divisor.
Quotient(num, den) ==
    IF den # 0 THEN [num |-> num, den |-> den]
    ELSE IF num = 0 THEN [num |-> 0, den |-> 0]           \* NaN
    ELSE [num |-> 1, den |-> 0]                            \* +Inf

IoUOverFirstArea(a, b) ==
    Quotient(interArea(Corners(a), Corners(b)), boxArea(Corners(a)))

bbIntersectionOverUnion(a, b) ==
    LET boxA == Corners(a)
        boxB == Corners(b)
    IN  Quotient(interArea(boxA, boxB),
                 boxArea(boxA) + boxArea(boxB) - interArea(boxA, boxB))

\* The literal 0.7 of line 395, and the comparison with it.
intersectionTresholdNum == 7
intersectionTresholdDen == 10
ExceedsTreshold(iou) ==
    IF iou.den = 0 THEN iou.num = 1
    ELSE iou.num * intersectionTresholdDen > intersectionTresholdNum * iou.den

\* The default of the -confidence flag, in percent.
confidenceTreshold == 75

FuseReplacingOnTie(detectedObjects, currentlyDetectedObject) ==
    LET hit(i) == ExceedsTreshold(
                      bbIntersectionOverUnion(currentlyDetectedObject, detectedObjects[i]))
    IN  IF \E i \in DOMAIN detectedObjects : hit(i)
        THEN [i \in DOMAIN detectedObjects |->
                 IF hit(i) /\ currentlyDetectedObject.confidence >= detectedObjects[i].confidence
                 THEN currentlyDetectedObject ELSE detectedObjects[i]]
        ELSE Append(detectedObjects, currentlyDetectedObject)

\* A variant that never writes over an entry, to try the properties on.
FuseKeepingFirst(detectedObjects, currentlyDetectedObject) ==
    LET hit(i) == ExceedsTreshold(
                      bbIntersectionOverUnion(currentlyDetectedObject, detectedObjects[i]))
    IN  IF \E i \in DOMAIN detectedObjects : hit(i)
        THEN detectedObjects
        ELSE Append(detectedObjects, currentlyDetectedObject)

\* A variant without the comparison of line 398, to try the properties on.
FuseReplacingAlways(detectedObjects, currentlyDetectedObject) ==
    LET hit(i) == ExceedsTreshold(
                      bbIntersectionOverUnion(currentlyDetectedObject, detectedObjects[i]))
    IN  IF \E i \in DOMAIN detectedObjects : hit(i)
        THEN [i \in DOMAIN detectedObjects |->
                 IF hit(i) THEN currentlyDetectedObject ELSE detectedObjects[i]]
        ELSE Append(detectedObjects, currentlyDetectedObject)

\* Lines 386-406: one thresholded candidate is set against the objects so far.
FuseOne(detectedObjects, currentlyDetectedObject) ==
    LET hit(i) == ExceedsTreshold(
                      bbIntersectionOverUnion(currentlyDetectedObject, detectedObjects[i]))
    IN  IF \E i \in DOMAIN detectedObjects : hit(i)
        THEN [i \in DOMAIN detectedObjects |->
                 IF hit(i) /\ currentlyDetectedObject.confidence > detectedObjects[i].confidence
                 THEN currentlyDetectedObject ELSE detectedObjects[i]]
        ELSE Append(detectedObjects, currentlyDetectedObject)

\* Lines 366-408: the rows of the frame in order, the confidence filter first.
RECURSIVE FuseRows(_, _)
FuseRows(rows, detectedObjects) ==
    IF rows = <<>> THEN detectedObjects
    ELSE FuseRows(Tail(rows),
                  IF Head(rows).confidence > confidenceTreshold
                  THEN FuseOne(detectedObjects, Head(rows))
                  ELSE detectedObjects)

\* A variant of the filter, to try the properties on.
RECURSIVE FuseRowsNonStrict(_, _)
FuseRowsNonStrict(rows, detectedObjects) ==
    IF rows = <<>> THEN detectedObjects
    ELSE FuseRowsNonStrict(Tail(rows),
                           IF Head(rows).confidence >= confidenceTreshold
                           THEN FuseOne(detectedObjects, Head(rows))
                           ELSE detectedObjects)
performDetectionNonStrict(rows) == FuseRowsNonStrict(rows, <<>>)

performDetection(rows) == FuseRows(rows, <<>>)

\* Lines 415-425, with the 0-based index of Go.
RECURSIVE ScanScores(_, _, _, _)
ScanScores(x, i, res, max) ==
    IF i > Len(x) THEN [res |-> res, max |-> max]
    ELSE IF x[i] > max THEN ScanScores(x, i + 1, i - 1, x[i])
    ELSE ScanScores(x, i + 1, res, max)

getClassIDLastMax(x) ==
    IF x = <<>> THEN [res |-> 0, max |-> 0]
    ELSE LET m == CHOOSE v \in {x[i] : i \in DOMAIN x} : \A i \in DOMAIN x : x[i] <= v
             last == CHOOSE i \in DOMAIN x : x[i] = m /\ \A k \in DOMAIN x : x[k] = m => k <= i
         IN  [res |-> last - 1, max |-> m]

getClassIDAndConfidence(x) == ScanScores(x, 1, 0, 0)

\* Inputs of the helpers.
Boxes ==
    [left : 0..MaxCoord, top : 0..MaxCoord, width : 0..MaxCoord, height : 0..MaxCoord]
\* In percent: the threshold itself, and two values above it.
Confidences == {confidenceTreshold, 80, 95}
Candidates ==
    [left : {0, 1, 2, 3 * BoxSide}, top : {0}, width : {BoxSide},
     height : {BoxSide}, confidence : Confidences]
SeqsUpTo(S, n) == UNION {[1..k -> S] : k \in 0..n}

(***************************************************************************)
(* State.                                                                  *)
(*   deviceIdList, prod, subscription: the configuration (the -d list,     *)
(*     RUN_ENV = prod, the subscription table), fixed during a run.        *)
(*   frames: how many frames a source delivers (how many loop passes an    *)
(*     image is given) in the run.                                         *)
(*   advances: by how much the clock may move between two readings of a    *)
(*     run (none: the whole run falls within one minute).                  *)
(*   mainI: index of the next device main's loop handles; wg: the          *)
(*     WaitGroup counter; proc: "running", or how the process ended.       *)
(*   task[i]: detectFromCapture's position and locals for device i.        *)
(*   conn[i]: the connection goroutine, channel c1 and timeout of i.       *)
(*   hba[i]: the locals of notifyObservers / hasBeenAlerted of task i.     *)
(*   clock, ticks: the last instant read, and how often it advanced.       *)
(*   alert, detection_event, detection: tables; mails: mails sent.         *)
(*   call, ret: a call of one of the detection helpers on its own (the     *)
(*     function and its arguments), and what it returned (<<>>: nothing    *)
(*     yet).                                                               *)
(***************************************************************************)
VARIABLES deviceIdList, prod, subscription, frames, advances, mainI, wg, proc, task,
          conn, hba, clock, ticks, alert, detection_event, detection, mails,
          call, ret

vars == <<deviceIdList, prod, subscription, frames, advances, mainI, wg, proc, task,
          conn, hba, clock, ticks, alert, detection_event, detection, mails,
          call, ret>>
fnVars == <<call, ret>>
cfgVars == <<deviceIdList, prod, subscription, frames, advances>>
dbVars == <<alert, detection_event, detection, mails>>
clockVars == <<clock, ticks>>

NoCall == [fn |-> "none"]

NoTask ==
    [pc |-> "idle", sourceType |-> Unrecognized, webcam |-> "nil", net |-> "nil",
     iter |-> 0, detectedObjects |-> 0, captureTime |-> 0, event |-> 0, inserted |-> 0]
NoConn == [gor |-> "none", c1 |-> 0, timer |-> FALSE, outcomes |-> {}]
NoHba ==
    [rows |-> {}, email |-> "", subscriptionId |-> 0, intervalLength |-> 0,
     intervalType |-> <<>>, captureTime |-> 0, lastCapture |-> <<>>,
     result |-> "none"]

\* init.sql, line 71: one subscription, of the seeded observer to the seeded stream.
SeedSubscription ==
    (1 :> [observer_id |-> "o1", stream |-> Cam1, alert |-> TRUE,
           alert_interval |-> <<"1", "5", "m">>])

\* Subscription tables of the throttle runs: o1 on both streams, o2 on the first.
SubscriptionTable(i1, i2, i3) ==
    (1 :> [observer_id |-> "o1", stream |-> Cam1, alert |-> TRUE, alert_interval |-> i1])
    @@ (2 :> [observer_id |-> "o1", stream |-> Cam2, alert |-> TRUE, alert_interval |-> i2])
    @@ (3 :> [observer_id |-> "o2", stream |-> Cam1, alert |-> TRUE, alert_interval |-> i3])

InitState(lists, modes, tables, length, deltas) ==
    /\ deviceIdList \in lists
    /\ prod \in modes
    /\ subscription \in tables
    /\ frames = length
    /\ advances = deltas
    /\ mainI = 1
    /\ wg = 0
    /\ proc = "running"
    /\ task = [i \in Tasks |-> NoTask]
    /\ conn = [i \in Tasks |-> NoConn]
    /\ hba = [i \in Tasks |-> NoHba]
    /\ clock = 0
    /\ ticks = 0
    /\ alert = {}
    /\ detection_event = {}
    /\ detection = {}
    /\ mails = {}
    /\ call = NoCall
    /\ ret = <<>>

Init == InitState([Tasks -> Devices], BOOLEAN, {SeedSubscription}, MaxIter, {})

(***************************************************************************)
(* Shared fragments.                                                       *)
(***************************************************************************)
Running == proc = "running"

\* wg.Done(): the counter drops by one; below zero the WaitGroup panics.
WgDone ==
    /\ wg' = wg - 1
    /\ proc' = IF wg - 1 < 0 THEN "panic" ELSE proc

\* log.Fatal: the process exits at once.
Fatal == proc' = "fatal"

\* time.Now(): the instant read is the last one read or a later one.
TimeNow(d) ==
    /\ d = 0 \/ ticks < MaxTicks
    /\ clock' = clock + d
    /\ ticks' = IF d = 0 THEN ticks ELSE ticks + 1

Connecting == {"start", "select"}
Loading == {"readnet"}
InLoop == {"loop", "detect", "getClassId", "insertEvent", "insertDetection",
           "notify", "rows", "hbaSub", "hbaLast", "hbaInsert", "mail"}

(***************************************************************************)
(* main, lines 148-160.                                                    *)
(***************************************************************************)
MainLaunch ==
    /\ Running
    /\ mainI <= NumSources
    /\ getDeviceType(deviceIdList[mainI]) >= 0
    /\ wg' = wg + 1
    /\ task' = [task EXCEPT ![mainI] =
                   [NoTask EXCEPT !.pc = "start",
                                  !.sourceType = getDeviceType(deviceIdList[mainI])]]
    /\ mainI' = mainI + 1
    /\ UNCHANGED <<fnVars, cfgVars, proc, conn, hba, clockVars, dbVars>>

MainSkipUnrecognized ==
    /\ Running
    /\ mainI <= NumSources
    /\ getDeviceType(deviceIdList[mainI]) < 0
    /\ wg' = wg + 1
    /\ mainI' = mainI + 1
    /\ UNCHANGED <<fnVars, cfgVars, proc, task, conn, hba, clockVars, dbVars>>

MainWait ==
    /\ Running
    /\ mainI > NumSources
    /\ wg = 0
    /\ proc' = "exited"
    /\ UNCHANGED <<fnVars, cfgVars, mainI, wg, task, conn, hba, clockVars, dbVars>>

(***************************************************************************)
(* detectFromCapture, lines 163-229: opening the source and the model.     *)
(***************************************************************************)
OpenImage(i) ==
    /\ Running
    /\ task[i].pc = "start"
    /\ task[i].sourceType = IMAGE
    /\ \/ task' = [task EXCEPT ![i].pc = "ret"]          \* img.Empty(): return
       \/ task' = [task EXCEPT ![i].pc = "readnet"]
    /\ UNCHANGED <<fnVars, cfgVars, mainI, wg, proc, conn, hba, clockVars, dbVars>>

OpenVideo(i) ==
    /\ Running
    /\ task[i].pc = "start"
    /\ task[i].sourceType = VIDEO
    /\ \/ task' = [task EXCEPT ![i].pc = "ret"]          \* captureError: return
       \/ task' = [task EXCEPT ![i].pc = "readnet", ![i].webcam = "open"]
    /\ UNCHANGED <<fnVars, cfgVars, mainI, wg, proc, conn, hba, clockVars, dbVars>>

OpenStream(i) ==
    /\ Running
    /\ task[i].pc = "start"
    /\ task[i].sourceType = STREAM
    /\ task' = [task EXCEPT ![i].pc = "select"]
    /\ conn' = [conn EXCEPT ![i].gor = "opening"]
    /\ UNCHANGED <<fnVars, cfgVars, mainI, wg, proc, hba, clockVars, dbVars>>

\* make(chan *gocv.VideoCapture, 1), line 191.
ChanCap == 1

\* Variants of the goroutine and of the timeout case, to try the properties on.
GoOpenCaptureUnbuffered(i) ==
    /\ Running
    /\ conn[i].gor = "opening"
    /\ \/ /\ conn' = [conn EXCEPT ![i].gor = "failed",
                                  ![i].outcomes = @ \cup {"failed"}]
          /\ WgDone
       \/ /\ task[i].pc = "select"                 \* sends only to a waiting receiver
          /\ conn' = [conn EXCEPT ![i].gor = "sent", ![i].c1 = 1]
          /\ UNCHANGED <<wg, proc>>
    /\ UNCHANGED <<fnVars, cfgVars, mainI, task, hba, clockVars, dbVars>>
SelectTimeoutFallsThrough(i) ==
    /\ Running
    /\ task[i].pc = "select"
    /\ conn[i].timer
    /\ WgDone
    /\ IF wg - 1 < 0
       THEN UNCHANGED <<task, conn>>
       ELSE /\ conn' = [conn EXCEPT ![i].outcomes = @ \cup {"timed-out"}]
            /\ task' = [task EXCEPT ![i].pc = "readnet"]
    /\ UNCHANGED <<fnVars, cfgVars, mainI, hba, clockVars, dbVars>>

\* The goroutine of lines 193-201, when OpenVideoCaptureWithAPI returns.
GoOpenCapture(i) ==
    /\ Running
    /\ conn[i].gor = "opening"
    /\ \/ /\ conn' = [conn EXCEPT ![i].gor = "failed",
                                  ![i].outcomes = @ \cup {"failed"}]
          /\ WgDone
       \/ /\ conn[i].c1 < ChanCap                 \* c1 <- wc: room in the buffer
          /\ conn' = [conn EXCEPT ![i].gor = "sent", ![i].c1 = @ + 1]
          /\ UNCHANGED <<wg, proc>>
    /\ UNCHANGED <<fnVars, cfgVars, mainI, task, hba, clockVars, dbVars>>

\* ctxTimeout expires.
TimerFire(i) ==
    /\ Running
    /\ task[i].pc = "select"
    /\ ~conn[i].timer
    /\ conn' = [conn EXCEPT ![i].timer = TRUE]
    /\ UNCHANGED <<fnVars, cfgVars, mainI, wg, proc, task, hba, clockVars, dbVars>>

\* select, case webcam = <-c1.
SelectConnected(i) ==
    /\ Running
    /\ task[i].pc = "select"
    /\ conn[i].c1 = 1
    /\ conn' = [conn EXCEPT ![i].c1 = 0, ![i].outcomes = @ \cup {"connected"}]
    /\ task' = [task EXCEPT ![i].pc = "readnet", ![i].webcam = "open"]
    /\ UNCHANGED <<fnVars, cfgVars, mainI, wg, proc, hba, clockVars, dbVars>>

\* select, case <-ctxTimeout.Done().
SelectTimeout(i) ==
    /\ Running
    /\ task[i].pc = "select"
    /\ conn[i].timer
    /\ WgDone
    /\ IF wg - 1 < 0
       THEN UNCHANGED <<task, conn>>
       ELSE /\ conn' = [conn EXCEPT ![i].outcomes = @ \cup {"timed-out"}]
            /\ task' = [task EXCEPT ![i].pc = "ret"]
    /\ UNCHANGED <<fnVars, cfgVars, mainI, hba, clockVars, dbVars>>

ReadNet(i) ==
    /\ Running
    /\ task[i].pc = "readnet"
    /\ \/ task' = [task EXCEPT ![i].pc = "ret"]          \* net.Empty(): return
       \/ task' = [task EXCEPT ![i].pc = "loop", ![i].net = "open"]
    /\ UNCHANGED <<fnVars, cfgVars, mainI, wg, proc, conn, hba, clockVars, dbVars>>

\* The function returns: its deferred Close calls run.
TaskReturn(i) ==
    /\ Running
    /\ task[i].pc = "ret"
    /\ task' = [task EXCEPT ![i].pc = "terminated",
                            ![i].webcam = IF @ = "open" THEN "closed" ELSE @,
                            ![i].net = IF @ = "open" THEN "closed" ELSE @]
    /\ UNCHANGED <<fnVars, cfgVars, mainI, wg, proc, conn, hba, clockVars, dbVars>>

(***************************************************************************)
(* detectFromCapture, lines 231-308: the loop.                             *)
(***************************************************************************)
\* An Image source has its frame already: the loop body starts at line 254.
LoopImage(i) ==
    /\ Running
    /\ task[i].pc = "loop"
    /\ task[i].sourceType = IMAGE
    /\ task[i].iter < frames
    /\ task' = [task EXCEPT ![i].pc = "detect", ![i].iter = @ + 1]
    /\ UNCHANGED <<fnVars, cfgVars, mainI, wg, proc, conn, hba, clockVars, dbVars>>

\* webcam.Read, lines 233-252.
LoopRead(i) ==
    /\ Running
    /\ task[i].pc = "loop"
    /\ task[i].sourceType \in {VIDEO, STREAM}
    /\ \/ /\ WgDone                                        \* !ok: device closed
          /\ task' = [task EXCEPT ![i].pc = "ret"]
       \/ /\ task[i].iter < frames                        \* img.Empty(): log.Fatal
          /\ Fatal
          /\ UNCHANGED <<wg, task>>
       \/ /\ task[i].iter < frames
          /\ task' = [task EXCEPT ![i].pc = "detect", ![i].iter = @ + 1]
          /\ UNCHANGED <<wg, proc>>
    /\ UNCHANGED <<fnVars, cfgVars, mainI, conn, hba, clockVars, dbVars>>

\* A variant without the `continue` of lines 277-279, to try the properties on.
DetectWithoutSkip(i) ==
    /\ Running
    /\ task[i].pc = "detect"
    /\ \E d \in {0} \cup advances, n \in 0..MaxObjs :
        /\ task[i].sourceType = IMAGE /\ task[i].iter > 1 => n = task[i].detectedObjects
        /\ TimeNow(d)
        /\ \/ /\ prod
              /\ task' = [task EXCEPT ![i].captureTime = clock',
                                      ![i].detectedObjects = n,
                                      ![i].pc = "getClassId"]
              /\ UNCHANGED <<wg, proc>>
           \/ /\ ~prod
              /\ WgDone
              /\ task' = [task EXCEPT ![i].captureTime = clock',
                                      ![i].detectedObjects = n, ![i].pc = "ret"]
           \/ /\ ~prod
              /\ task' = [task EXCEPT ![i].captureTime = clock',
                                      ![i].detectedObjects = n, ![i].pc = "loop"]
              /\ UNCHANGED <<wg, proc>>
    /\ UNCHANGED <<fnVars, cfgVars, mainI, conn, hba, dbVars>>

\* Lines 254-302: the capture time, the detection, and what is done with it.
\* The same image gives the same objects on every pass.
Detect(i) ==
    /\ Running
    /\ task[i].pc = "detect"
    /\ \E d \in {0} \cup advances, n \in 0..MaxObjs :
        /\ task[i].sourceType = IMAGE /\ task[i].iter > 1 => n = task[i].detectedObjects
        /\ TimeNow(d)
        /\ \/ /\ prod
              /\ task' = [task EXCEPT ![i].captureTime = clock',
                                      ![i].detectedObjects = n,
                                      ![i].pc = IF n = 0 THEN "loop" ELSE "getClassId"]
              /\ UNCHANGED <<wg, proc>>
           \/ /\ ~prod                                     \* window.WaitKey(1) >= 0
              /\ WgDone
              /\ task' = [task EXCEPT ![i].captureTime = clock',
                                      ![i].detectedObjects = n, ![i].pc = "ret"]
           \/ /\ ~prod
              /\ task' = [task EXCEPT ![i].captureTime = clock',
                                      ![i].detectedObjects = n, ![i].pc = "loop"]
              /\ UNCHANGED <<wg, proc>>
    /\ UNCHANGED <<fnVars, cfgVars, mainI, conn, hba, dbVars>>

\* db.getClassId and lines 283-285.
GetClassId(i) ==
    /\ Running
    /\ task[i].pc = "getClassId"
    /\ \/ /\ task' = [task EXCEPT ![i].pc = "insertEvent"]
          /\ UNCHANGED proc
       \/ /\ Fatal
          /\ UNCHANGED task
    /\ UNCHANGED <<fnVars, cfgVars, mainI, wg, conn, hba, clockVars, dbVars>>

(***************************************************************************)
(* Database.insertDetections: the event row, then one row per object, each *)
(* statement on its own.                                                   *)
(***************************************************************************)
InsertEvent(i) ==
    /\ Running
    /\ task[i].pc = "insertEvent"
    /\ \/ LET id == Cardinality(detection_event) + 1 IN
          /\ detection_event' = detection_event \cup
                 {[id |-> id, count |-> task[i].detectedObjects,
                   created |-> WallClock(task[i].captureTime)]}
          /\ task' = [task EXCEPT ![i].pc = "insertDetection", ![i].event = id,
                                  ![i].inserted = 0]
          /\ UNCHANGED proc
       \/ /\ Fatal
          /\ UNCHANGED <<task, detection_event>>
    /\ UNCHANGED <<fnVars, cfgVars, mainI, wg, conn, hba, clockVars, alert, detection, mails>>

InsertDetection(i) ==
    /\ Running
    /\ task[i].pc = "insertDetection"
    /\ task[i].inserted < task[i].detectedObjects
    /\ \/ /\ detection' = detection \cup
                 {[event |-> task[i].event, object |-> task[i].inserted + 1]}
          /\ task' = [task EXCEPT ![i].inserted = @ + 1]
          /\ UNCHANGED proc
       \/ /\ Fatal
          /\ UNCHANGED <<task, detection>>
    /\ UNCHANGED <<fnVars, cfgVars, mainI, wg, conn, hba, clockVars, alert, detection_event, mails>>

\* insertDetections returns lastInsertId; main.go lines 290-292.
InsertReturn(i) ==
    /\ Running
    /\ task[i].pc = "insertDetection"
    /\ task[i].inserted = task[i].detectedObjects
    /\ task' = [task EXCEPT ![i].pc = IF task[i].event > 0 THEN "notify" ELSE "loop"]
    /\ UNCHANGED <<fnVars, cfgVars, mainI, wg, proc, conn, hba, clockVars, dbVars>>

(***************************************************************************)
(* Database.notifyObservers and Database.hasBeenAlerted.                   *)
(***************************************************************************)
\* The observers whose subscription to the stream of this address has alert set.
SubscribedObservers(deviceID) ==
    {subscription[r].observer_id : r \in
        {q \in DOMAIN subscription :
            subscription[q].stream = deviceID /\ subscription[q].alert}}

\* Line 210.
NotifyQuery(i) ==
    /\ Running
    /\ task[i].pc = "notify"
    /\ \/ /\ hba' = [hba EXCEPT ![i].rows = SubscribedObservers(deviceIdList[i])]
          /\ task' = [task EXCEPT ![i].pc = "rows"]
          /\ UNCHANGED proc
       \/ /\ Fatal
          /\ UNCHANGED <<task, hba>>
    /\ UNCHANGED <<fnVars, cfgVars, mainI, wg, conn, clockVars, dbVars>>

\* rows.Next(), lines 217-222; with no row left the loop body ends (303-307).
NotifyNext(i) ==
    /\ Running
    /\ task[i].pc = "rows"
    /\ \/ /\ hba[i].rows = {}
          /\ task' = [task EXCEPT ![i].pc = "loop"]
          /\ hba' = [hba EXCEPT ![i] = NoHba]
       \/ \E e \in hba[i].rows :
          /\ hba' = [hba EXCEPT ![i] = [NoHba EXCEPT !.rows = hba[i].rows \ {e},
                                                     !.email = e]]
          /\ task' = [task EXCEPT ![i].pc = "hbaSub"]
    /\ UNCHANGED <<fnVars, cfgVars, mainI, wg, proc, conn, clockVars, dbVars>>

\* The subscription rows of the observer with this email: the query of line
\* 165 names no stream, and QueryRow takes the first row the server returns.
SubscriptionsOf(email) ==
    {r \in DOMAIN subscription : subscription[r].observer_id = email}

\* Lines 165-172: the subscription row, its interval, the current time.
HbaSubscription(i) ==
    /\ Running
    /\ task[i].pc = "hbaSub"
    /\ \/ \E r \in SubscriptionsOf(hba[i].email), d \in {0} \cup advances :
          /\ TimeNow(d)
          /\ hba' = [hba EXCEPT
                 ![i].subscriptionId = r,
                 ![i].intervalLength = Sscanf(subscription[r].alert_interval).intervalLength,
                 ![i].intervalType = Sscanf(subscription[r].alert_interval).intervalType,
                 ![i].captureTime = clock',
                 ![i].lastCapture = <<>>,
                 ![i].result = "none"]
          /\ task' = [task EXCEPT ![i].pc = "hbaLast"]
          /\ UNCHANGED proc
       \/ /\ Fatal
          /\ UNCHANGED <<task, hba, clockVars>>
    /\ UNCHANGED <<fnVars, cfgVars, mainI, wg, conn, dbVars>>

\* The created column of the alert rows of a subscription.
AlertsOf(subscriptionId) ==
    {a.created : a \in {b \in alert : b.subscription_id = subscriptionId}}

Latest(times) == CHOOSE t \in times : \A u \in times : u <= t

\* Lines 174-175: SELECT created ... ORDER BY created DESC, first row.
LastAlert(subscriptionId) ==
    IF AlertsOf(subscriptionId) = {}
    THEN <<>>
    ELSE FormatTimestamp(Latest(AlertsOf(subscriptionId)))

\* Lines 174-199: the last alert is read and compared (the comparison
\* touches only locals, so it is one step with the read); on "return true"
\* notifyObservers goes on to its next row.
HbaLastAlert(i) ==
    /\ Running
    /\ task[i].pc = "hbaLast"
    /\ LET lastCapture == LastAlert(hba[i].subscriptionId) IN
       IF ReturnsAlerted(hba[i].intervalType, hba[i].intervalLength,
                         lastCapture, hba[i].captureTime)
       THEN /\ hba' = [hba EXCEPT ![i].lastCapture = lastCapture,
                                  ![i].result = "suppress"]
            /\ task' = [task EXCEPT ![i].pc = "rows"]
       ELSE /\ hba' = [hba EXCEPT ![i].lastCapture = lastCapture]
            /\ task' = [task EXCEPT ![i].pc = "hbaInsert"]
    /\ UNCHANGED <<fnVars, cfgVars, mainI, wg, proc, conn, clockVars, dbVars>>

\* Lines 201-205: the new alert row; return false.
HbaInsert(i) ==
    /\ Running
    /\ task[i].pc = "hbaInsert"
    /\ \/ /\ alert' = alert \cup
                 {[detection_event_id |-> task[i].event,
                   subscription_id |-> hba[i].subscriptionId,
                   created |-> WallClock(hba[i].captureTime)]}
          /\ hba' = [hba EXCEPT ![i].result = "allow"]
          /\ task' = [task EXCEPT ![i].pc = "mail"]
          /\ UNCHANGED proc
       \/ /\ Fatal
          /\ UNCHANGED <<task, hba, alert>>
    /\ UNCHANGED <<fnVars, cfgVars, mainI, wg, conn, clockVars, detection_event, detection, mails>>

\* notifyObservers lines 224-233 and sendMail.
SendMail(i) ==
    /\ Running
    /\ task[i].pc = "mail"
    /\ \/ /\ mails' = mails \cup {[to |-> hba[i].email, event |-> task[i].event]}
          /\ task' = [task EXCEPT ![i].pc = "rows"]
          /\ UNCHANGED proc
       \/ /\ Fatal                                          \* smtp.SendMail fails
          /\ UNCHANGED <<task, mails>>
    /\ UNCHANGED <<fnVars, cfgVars, mainI, wg, conn, hba, clockVars, alert, detection_event, detection>>

(***************************************************************************)
(* The program.                                                            *)
(***************************************************************************)
TaskStep(i) ==
    \/ OpenImage(i) \/ OpenVideo(i) \/ OpenStream(i)
    \/ GoOpenCapture(i) \/ TimerFire(i) \/ SelectConnected(i) \/ SelectTimeout(i)
    \/ ReadNet(i) \/ TaskReturn(i)
    \/ LoopImage(i) \/ LoopRead(i) \/ Detect(i) \/ GetClassId(i)
    \/ InsertEvent(i) \/ InsertDetection(i) \/ InsertReturn(i)
    \/ NotifyQuery(i) \/ NotifyNext(i)
    \/ HbaSubscription(i) \/ HbaLastAlert(i) \/ HbaInsert(i)
    \/ SendMail(i)

Next ==
    \/ MainLaunch \/ MainSkipUnrecognized \/ MainWait
    \/ \E i \in Tasks : TaskStep(i)

Spec == Init /\ [][Next]_vars

(***************************************************************************)
(* The throttle runs.  They start where two tasks, in production mode on   *)
(* stream sources, have each connected, read a first frame and persisted   *)
(* the event of that frame, and are about to call db.notifyObservers       *)
(* (main.go line 291); any further device of the list is unrecognized and  *)
(* has no task.  The two tasks then run notifyObservers concurrently,      *)
(* under every interval text and with a clock that advances.               *)
(***************************************************************************)
ThrottleTables ==
    {SubscriptionTable(i1, <<"1", "h">>, <<"1", "5", "m">>) : i1 \in IntervalTexts}

Notifiers == {i \in Tasks : i <= 2}

AtNotify(i) ==
    [pc |-> "notify", sourceType |-> STREAM, webcam |-> "open", net |-> "open",
     iter |-> 1, detectedObjects |-> 1, captureTime |-> 0, event |-> i, inserted |-> 1]

InitThrottle ==
    /\ deviceIdList \in {l \in [Tasks -> {Cam1, Cam2, Usb}] :
                            /\ l[1] = Cam1
                            /\ \A i \in Tasks : l[i] = Usb <=> i \notin Notifiers}
    /\ prod = TRUE
    /\ subscription \in ThrottleTables
    /\ frames = 1
    /\ advances = Deltas
    /\ mainI = NumSources + 1
    /\ wg = NumSources
    /\ proc = "running"
    /\ task = [i \in Tasks |-> IF i \in Notifiers THEN AtNotify(i) ELSE NoTask]
    /\ conn = [i \in Tasks |->
                 IF i \in Notifiers
                 THEN [gor |-> "sent", c1 |-> 0, timer |-> FALSE,
                       outcomes |-> {"connected"}]
                 ELSE NoConn]
    /\ hba = [i \in Tasks |-> NoHba]
    /\ clock = 0
    /\ ticks = 0
    /\ alert = {}
    /\ detection_event =
           {[id |-> i, count |-> 1, created |-> WallClock(0)] : i \in Notifiers}
    /\ detection = {[event |-> i, object |-> 1] : i \in Notifiers}
    /\ mails = {}
    /\ call = NoCall
    /\ ret = <<>>

NextThrottle ==
    \E i \in Tasks :
        \/ NotifyQuery(i) \/ NotifyNext(i)
        \/ HbaSubscription(i) \/ HbaLastAlert(i) \/ HbaInsert(i)
        \/ SendMail(i)

SpecThrottle == InitThrottle /\ [][NextThrottle]_vars

(***************************************************************************)
(* The detection helpers on their own: a call of getClassIDAndConfidence,  *)
(* of bbIntersectionOverUnion or of performDetection's fusion on inputs    *)
(* drawn from the sets above; the fusion may be run again on what it       *)
(* returned.  No source task runs.                                         *)
(***************************************************************************)
InitDetection ==
    /\ deviceIdList = [i \in Tasks |-> Img]
    /\ prod = FALSE
    /\ subscription = SeedSubscription
    /\ frames = 0
    /\ advances = {}
    /\ mainI = 1
    /\ wg = 0
    /\ proc = "running"
    /\ task = [i \in Tasks |-> NoTask]
    /\ conn = [i \in Tasks |-> NoConn]
    /\ hba = [i \in Tasks |-> NoHba]
    /\ clock = 0
    /\ ticks = 0
    /\ alert = {}
    /\ detection_event = {}
    /\ detection = {}
    /\ mails = {}
    /\ call \in
          {[fn |-> "getClassIDAndConfidence", x |-> x] :
               x \in SeqsUpTo(0..MaxScore, MaxClasses)}
          \cup {[fn |-> "bbIntersectionOverUnion", a |-> a, b |-> b] :
                    a \in Boxes, b \in Boxes}
          \cup {[fn |-> "performDetection", rows |-> r, pass |-> 1] :
                    r \in SeqsUpTo(Candidates, MaxCands)}
    /\ ret = <<>>

NotCalled == <<cfgVars, mainI, wg, proc, task, conn, hba, clockVars, dbVars>>

CallGetClassIDAndConfidence ==
    /\ call.fn = "getClassIDAndConfidence"
    /\ ret = <<>>
    /\ ret' = <<getClassIDAndConfidence(call.x)>>
    /\ UNCHANGED <<call, NotCalled>>

CallBbIntersectionOverUnion ==
    /\ call.fn = "bbIntersectionOverUnion"
    /\ ret = <<>>
    /\ ret' = <<bbIntersectionOverUnion(call.a, call.b)>>
    /\ UNCHANGED <<call, NotCalled>>

CallPerformDetection ==
    /\ call.fn = "performDetection"
    /\ ret = <<>>
    /\ ret' = <<performDetection(call.rows)>>
    /\ UNCHANGED <<call, NotCalled>>

\* The fusion is given the objects it returned.
CallPerformDetectionAgain ==
    /\ call.fn = "performDetection"
    /\ ret # <<>>
    /\ call.pass = 1
    /\ call' = [call EXCEPT !.rows = ret[1], !.pass = 2]
    /\ ret' = <<performDetection(ret[1])>>
    /\ UNCHANGED NotCalled

NextDetection ==
    \/ CallGetClassIDAndConfidence
    \/ CallBbIntersectionOverUnion
    \/ CallPerformDetection
    \/ CallPerformDetectionAgain

SpecDetection == InitDetection /\ [][NextDetection]_vars

(***************************************************************************)
(* Properties of the alert throttle (SpecThrottle).                        *)
(***************************************************************************)
Recognised(intervalType) == intervalType \in {<<"m">>, <<"h">>, <<"d">>}

\* The length in minutes of an interval of a recognised unit.
IntervalMinutes(intervalType, intervalLength) ==
    IF intervalType = <<"m">> THEN intervalLength * Minute
    ELSE IF intervalType = <<"h">> THEN intervalLength * Hour
    ELSE intervalLength * Day

\* Task i takes the step that reads the last alert and decides.
Decides(i) == task[i].pc = "hbaLast" /\ task'[i].pc # "hbaLast"

\* The alert row and the mail of the evaluation task i is in.
OwnAlertRows(i) ==
    {a \in alert : /\ a.detection_event_id = task[i].event
                   /\ a.subscription_id = hba[i].subscriptionId}
OwnMail(i) == [to |-> hba[i].email, event |-> task[i].event]

C2_OpenWindowAllows ==
    /\ [][\A i \in Tasks :
            ( /\ Decides(i)
              /\ \/ AlertsOf(hba[i].subscriptionId) = {}
                 \/ /\ Recognised(hba[i].intervalType)
                    /\ Latest(AlertsOf(hba[i].subscriptionId)) <=
                          WallClock(hba[i].captureTime)
                              - IntervalMinutes(hba[i].intervalType,
                                                hba[i].intervalLength) )
            => /\ task'[i].pc = "hbaInsert"
               /\ hba'[i].result = "none"]_vars
    /\ [](\A i \in Tasks :
            /\ task[i].pc = "mail" => hba[i].result = "allow"
            /\ hba[i].result = "allow" =>
                  [detection_event_id |-> task[i].event,
                   subscription_id |-> hba[i].subscriptionId,
                   created |-> WallClock(hba[i].captureTime)] \in alert)

\* C2 witness: an allowed evaluation whose last alert is exactly at the cutoff.
C2_Witness ==
    \E i \in Tasks :
        /\ hba[i].result = "allow"
        /\ Recognised(hba[i].intervalType)
        /\ hba[i].intervalLength > 0
        /\ Len(hba[i].lastCapture) > 0
        /\ ParseInLocation(hba[i].lastCapture) =
              hba[i].captureTime
                  - IntervalMinutes(hba[i].intervalType, hba[i].intervalLength)

\* C3 (as claimed): an evaluation of a subscription whose unit is none of m, h,
\* d never reaches the INSERT or the mail, and no alert row of such a
\* subscription exists.
C3_UnrecognisedUnitSuppresses ==
    /\ \A i \in Tasks :
          task[i].pc \in {"hbaInsert", "mail"} => Recognised(hba[i].intervalType)
    /\ \A a \in alert :
          Recognised(Sscanf(subscription[a.subscription_id].alert_interval).intervalType)

\* C4 (as claimed): two alert rows of one subscription with a recognised unit
\* and a positive magnitude are at least one interval apart.
C4_OneAlertPerInterval ==
    \A a, b \in alert :
        LET sc == Sscanf(subscription[a.subscription_id].alert_interval) IN
        ( /\ a # b
          /\ a.subscription_id = b.subscription_id
          /\ Recognised(sc.intervalType)
          /\ sc.intervalLength > 0
          /\ a.created <= b.created )
        => b.created - a.created >= IntervalMinutes(sc.intervalType, sc.intervalLength)

\* The subscription of an observer to the stream of a device address.
SubscriptionTo(email, deviceID) ==
    CHOOSE r \in DOMAIN subscription :
        subscription[r].observer_id = email /\ subscription[r].stream = deviceID

\* C5 (as claimed): the decision for observer O on stream S is the one that the
\* interval and the alerts of O's subscription to S give.
C5_KeyedByObserverAndStream ==
    [][\A i \in Tasks :
          Decides(i) =>
            LET own == SubscriptionTo(hba[i].email, deviceIdList[i])
                sc == Sscanf(subscription[own].alert_interval)
            IN  (task'[i].pc = "rows") <=>
                    ReturnsAlerted(sc.intervalType, sc.intervalLength,
                                   LastAlert(own), hba[i].captureTime)]_vars

(***************************************************************************)
(* Properties of the orchestrator and of the stream connection (Spec).     *)
(***************************************************************************)
Ended(i) == task[i].pc \in {"idle", "terminated"}

\* C6 (as claimed): main's wait has returned only when no task is connecting,
\* loading the model or in its loop.
C6_BarrierSafety ==
    proc = "exited" =>
        \A i \in Tasks : task[i].pc \notin Connecting \cup Loading \cup InLoop

\* C7 (as claimed): when main has handled every device, every task has ended
\* or was never launched, and no connection goroutine is left, the wait
\* returns.
C7_CompletionLiveness ==
    ( /\ proc = "running"
      /\ mainI > NumSources
      /\ \A i \in Tasks : Ended(i) /\ conn[i].gor # "opening" )
    => ENABLED MainWait

\* C8 (as claimed): a stream's connection reports at most one outcome, and
\* exactly one once the task has left the select.
C8_ExactlyOneOutcome ==
    \A i \in Tasks :
        /\ Cardinality(conn[i].outcomes) <= 1
        /\ ( /\ task[i].sourceType = STREAM
             /\ task[i].pc \notin Connecting \cup {"idle"} )
           => Cardinality(conn[i].outcomes) = 1

\* C9 (as claimed): while the process runs and a task waits in the select with
\* the timer fired and the connection attempt still pending, the timeout case
\* can be taken; and taking it reports "timed-out", nothing else, and returns.
C9_BoundedConnectionWait ==
    /\ [](\A i \in Tasks :
            ( /\ Running
              /\ task[i].pc = "select"
              /\ conn[i].timer
              /\ conn[i].gor = "opening" )
            => ENABLED SelectTimeout(i))
    /\ [][\A i \in Tasks :
            ( /\ conn[i].gor = "opening"
              /\ SelectTimeout(i) )
            => /\ conn'[i].outcomes = {"timed-out"}
               /\ task'[i].pc = "ret"]_vars

\* C10 (as claimed): an image task makes one pass of the loop and is never
\* back at the head of the loop after it.
C10_ImageOneIteration ==
    \A i \in Tasks :
        task[i].sourceType = IMAGE /\ task[i].pc # "idle"
        => /\ task[i].iter <= 1
           /\ task[i].pc = "loop" => task[i].iter = 0

\* Task i signals its completion to the orchestrator in this step (wg.Done()).
SignalsCompletion(i) ==
    /\ wg' = wg - 1
    /\ LoopRead(i) \/ Detect(i) \/ SelectTimeout(i)

\* C11 (as claimed): when a task signals its completion, its source connection
\* and its net are not open any more; and a task that has terminated has left
\* no connection open, neither its own nor one its goroutine delivered late.
C11_ReleaseBeforeHandBack ==
    /\ [][\A i \in Tasks :
            SignalsCompletion(i)
            => task[i].webcam # "open" /\ task[i].net # "open"]_vars
    /\ [](\A i \in Tasks :
            task[i].pc = "terminated"
            => /\ task[i].webcam # "open"
               /\ task[i].net # "open"
               /\ conn[i].c1 = 0)

(***************************************************************************)
(* Properties of the detection helpers (SpecDetection).                    *)
(***************************************************************************)
Returned(fn) == call.fn = fn /\ ret # <<>>
Thresholded(rows) == \A k \in DOMAIN rows : rows[k].confidence > confidenceTreshold
Degenerate(a) == a.width = 0 \/ a.height = 0

\* One box ends before the other begins, on the x axis or on the y axis.
ApartX(a, b) == a.left + a.width < b.left \/ b.left + b.width < a.left
ApartY(a, b) == a.top + a.height < b.top \/ b.top + b.height < a.top

\* C12 (as claimed): the fusion run on what it returned for thresholded
\* candidates returns the same objects.
C12_FuseIdempotent ==
    [][(CallPerformDetectionAgain /\ Thresholded(call.rows)) => ret' = ret]_vars

\* C13 (as claimed): no two entries of what the fusion returns for thresholded
\* candidates overlap by more than 0.7.
C13_FuseNoDuplicates ==
    ( /\ Returned("performDetection")
      /\ call.pass = 1
      /\ Thresholded(call.rows) )
    => \A i, j \in DOMAIN ret[1] :
          i # j => ~ExceedsTreshold(bbIntersectionOverUnion(ret[1][i], ret[1][j]))

\* Two thresholded candidates that overlap by more than 0.7 have been fused.
FusedPair ==
    /\ Returned("performDetection")
    /\ call.pass = 1
    /\ Len(call.rows) = 2
    /\ Thresholded(call.rows)
    /\ ExceedsTreshold(bbIntersectionOverUnion(call.rows[1], call.rows[2]))

\* C14: the fusion of two thresholded candidates that overlap by more than 0.7
\* returns one object: the second if its confidence is strictly greater, else
\* the first.
C14_FuseOverlappingPair ==
    FusedPair =>
        ret[1] = << IF call.rows[2].confidence > call.rows[1].confidence
                    THEN call.rows[2] ELSE call.rows[1] >>

\* C14 witness: confidences 80 then 95 give the one object of confidence 95.
C14_Witness ==
    /\ FusedPair
    /\ call.rows[1].confidence = 80
    /\ call.rows[2].confidence = 95
    /\ ret[1] = <<call.rows[2]>>

\* C15: bbIntersectionOverUnion(a, b) = bbIntersectionOverUnion(b, a).
C15_OverlapSymmetric ==
    Returned("bbIntersectionOverUnion")
    => ret[1] = bbIntersectionOverUnion(call.b, call.a)

\* C15 witness: two different boxes of different areas that share points.
C15_Witness ==
    /\ Returned("bbIntersectionOverUnion")
    /\ boxArea(Corners(call.a)) # boxArea(Corners(call.b))
    /\ ret[1].num > 0

\* C16: the overlap ratio of a box of positive width and height with itself is 1.
C16_OverlapSelfIsOne ==
    ( /\ Returned("bbIntersectionOverUnion")
      /\ call.a = call.b
      /\ ~Degenerate(call.a) )
    => ret[1].den # 0 /\ ret[1].num = ret[1].den

C16_Witness ==
    /\ Returned("bbIntersectionOverUnion")
    /\ call.a = call.b
    /\ call.a.width = MaxCoord /\ call.a.height > 0
    /\ ret[1].num = ret[1].den

\* C17: the overlap ratio of two boxes that are apart on an axis is 0.
C17_OverlapDisjointIsZero ==
    ( /\ Returned("bbIntersectionOverUnion")
      /\ ApartX(call.a, call.b) \/ ApartY(call.a, call.b) )
    => ret[1].num = 0 /\ ret[1].den > 0

\* C17 witness: two boxes more than one apart on both axes.
C17_Witness ==
    /\ Returned("bbIntersectionOverUnion")
    /\ call.a.left + call.a.width + 1 < call.b.left
    /\ call.a.top + call.a.height + 1 < call.b.top
    /\ ret[1].num = 0

\* C18 (as claimed): no call divides by zero, and the overlap ratio is 0 when
\* one of the two boxes has width 0 or height 0.
C18_OverlapDegenerateIsZero ==
    Returned("bbIntersectionOverUnion")
    => /\ ret[1].den # 0
       /\ Degenerate(call.a) \/ Degenerate(call.b) => ret[1].num = 0

\* C19: getClassIDAndConfidence returns (0, 0) for the empty vector, and else
\* the largest score and the first index that holds it.
C19_ClassifyFirstMaximum ==
    Returned("getClassIDAndConfidence")
    => IF call.x = <<>> THEN ret[1] = [res |-> 0, max |-> 0]
       ELSE /\ \A i \in DOMAIN call.x : call.x[i] <= ret[1].max
            /\ ret[1].res + 1 \in DOMAIN call.x
            /\ call.x[ret[1].res + 1] = ret[1].max
            /\ \A i \in DOMAIN call.x : i < ret[1].res + 1 => call.x[i] < ret[1].max

\* C19 witness: the largest score occurs twice, first at the second place.
C19_Witness ==
    /\ Returned("getClassIDAndConfidence")
    /\ Len(call.x) >= 3
    /\ call.x[2] = ret[1].max /\ call.x[3] = ret[1].max /\ call.x[1] < ret[1].max
    /\ ret[1].res = 1

(***************************************************************************)
(* Properties of the notification (Spec).                                  *)
(***************************************************************************)
\* C20 (as claimed): when the mail of task i cannot be sent, the process keeps
\* running and task i goes on with the next observer and the next frame.
C20_MailFailureDoesNotAbort ==
    [][\A i \in Tasks :
          (SendMail(i) /\ mails' = mails)
          => proc' = "running" /\ task'[i].pc = "rows"]_vars

(***************************************************************************)
(* Properties of the failure handling and of the completion counter (Spec).*)
(***************************************************************************)
\* Some other task than i is launched and has not ended.
SiblingAtWork(i) ==
    \E j \in Tasks \ {i} : task[j].pc \in Connecting \cup Loading \cup InLoop

\* C21 (as claimed): a step of the class lookup or of the event write of task i
\* leaves the process running, whatever its result, so that the siblings of i
\* go on.
C21_CatalogFailureConfined ==
    [][\A i \in Tasks :
          ( /\ SiblingAtWork(i)
            /\ GetClassId(i) \/ InsertEvent(i) \/ InsertDetection(i) )
          => proc' = "running"]_vars

\* C22 (as claimed): a read of a video or stream that neither ends the input nor
\* delivers a frame (the frame is empty) leaves the process running and the
\* task at the head of its loop.
C22_EmptyFrameSkipped ==
    [][\A i \in Tasks :
          (LoopRead(i) /\ task' = task)
          => proc' = "running" /\ task'[i].pc = "loop"]_vars

\* The detection rows stored for an event.
DetectionsOf(id) == {d \in detection : d.event = id}

\* Task i is inside insertDetections for this event.
Inserting(id) ==
    /\ Running
    /\ \E i \in Tasks : task[i].pc = "insertDetection" /\ task[i].event = id

\* C23 (as claimed): an event that no running insertDetections is still writing
\* has as many detection rows as its count.
C23_EventPersistenceAtomic ==
    \A e \in detection_event :
        ~Inserting(e.id) => Cardinality(DetectionsOf(e.id)) = e.count

\* C24 (as claimed): the WaitGroup counter is never negative, and once main has
\* handled every device it is zero only when every task has ended (a task that
\* has signalled is returning or has terminated) or was never launched.
C24_CompletionSignalledOnce ==
    /\ wg >= 0
    /\ (mainI > NumSources /\ wg = 0)
       => \A i \in Tasks : task[i].pc \in {"idle", "ret", "terminated"}

\* The connection of task i has failed: an error was reported or the timeout
\* case was taken.
ConnectionFailed(i) == conn[i].outcomes \cap {"failed", "timed-out"} # {}

\* C25: a stream task whose connection failed is waiting in the select,
\* returning or terminated, and it has loaded no model, read no frame and
\* stored no event.
C25_FailedConnectionNeverRuns ==
    \A i \in Tasks :
        ConnectionFailed(i)
        => /\ task[i].pc \in {"select", "ret", "terminated"}
           /\ task[i].net = "nil"
           /\ task[i].webcam = "nil"
           /\ task[i].iter = 0
           /\ task[i].event = 0

\* C25 witness: a task that timed out has terminated while its sibling is in
\* its loop.
C25_Witness ==
    \E i \in Tasks :
        /\ "timed-out" \in conn[i].outcomes
        /\ task[i].pc = "terminated"
        /\ \E j \in Tasks \ {i} : task[j].pc \in InLoop

\* C26: while the process runs, a connection goroutine whose attempt is still
\* pending can always finish, with its error or with its send on c1, whatever
\* the task is doing; in particular after the timeout case was taken.
C26_AbandonedAttemptNeverBlocks ==
    \A i \in Tasks :
        (Running /\ conn[i].gor = "opening")
        => /\ conn[i].c1 < ChanCap
           /\ ENABLED (GoOpenCapture(i) /\ conn'[i].gor = "sent")
           /\ ENABLED (GoOpenCapture(i) /\ conn'[i].gor = "failed")

\* C26 witness: the attempt succeeded after the task had timed out and left.
C26_Witness ==
    \E i \in Tasks :
        /\ conn[i].gor = "sent"
        /\ conn[i].c1 = 1
        /\ "timed-out" \in conn[i].outcomes
        /\ task[i].pc = "terminated"

\* The places of the rows whose confidence exceeds the threshold.
Kept(rows) == {k \in DOMAIN rows : rows[k].confidence > confidenceTreshold}

\* C27: every object performDetection returns is one of the rows whose
\* confidence is strictly greater than the threshold; there are at most as many
\* objects as such rows, and at least one when there is such a row.
C27_FilterStrictFuseSelects ==
    Returned("performDetection")
    => /\ \A o \in DOMAIN ret[1] : \E k \in Kept(call.rows) : call.rows[k] = ret[1][o]
       /\ Len(ret[1]) <= Cardinality(Kept(call.rows))
       /\ Kept(call.rows) # {} => Len(ret[1]) > 0

\* C27 witness: a row exactly at the threshold is dropped, and two of the rows
\* above it are fused into one object.
C27_Witness ==
    /\ Returned("performDetection")
    /\ call.pass = 1
    /\ \E k \in DOMAIN call.rows : call.rows[k].confidence = confidenceTreshold
    /\ Cardinality(Kept(call.rows)) = 2
    /\ Len(ret[1]) = 1

\* Where a task is from the call of db.notifyObservers to its return.
NotifyPath == {"notify", "rows", "hbaSub", "hbaLast", "hbaInsert", "mail"}

\* The rows of detection_event with this id.
EventRows(id) == {e \in detection_event : e.id = id}

\* C28: in production mode a frame with no detected object goes back to the
\* head of the loop with no table touched, and nothing is stored or sent while
\* a frame is read and detected; a row of detection_event is only ever added
\* one at a time, by the task handling a frame with at least one object, once
\* for that frame; and a task is in notifyObservers only with an event id
\* above zero that names exactly one stored event, that of its frame.
C28_ProdFrameHandling ==
    /\ [](\A i \in Tasks :
            /\ task[i].pc \in {"insertDetection"} \cup NotifyPath
               => /\ task[i].event > 0
                  /\ task[i].detectedObjects > 0
                  /\ Cardinality(EventRows(task[i].event)) = 1
                  /\ \A e \in EventRows(task[i].event) :
                         e.count = task[i].detectedObjects
            /\ task[i].pc \in {"getClassId", "insertEvent"}
               => prod /\ task[i].detectedObjects > 0)
    /\ [][\A i \in Tasks :
            /\ (Detect(i) /\ prod /\ task'[i].detectedObjects = 0)
               => task'[i].pc = "loop" /\ UNCHANGED <<dbVars, hba>>
            /\ (LoopImage(i) \/ LoopRead(i) \/ Detect(i) \/ GetClassId(i))
               => UNCHANGED dbVars
            /\ (InsertEvent(i) /\ proc' = "running")
               => /\ Cardinality(detection_event') = Cardinality(detection_event) + 1
                  /\ EventRows(task'[i].event) \cap detection_event = {}
                  /\ task'[i].pc = "insertDetection"
            /\ (task[i].pc = "insertDetection" /\ task'[i].pc # "insertDetection")
               => task'[i].pc = "notify" /\ task[i].event > 0
            /\ (task[i].pc \notin NotifyPath /\ task'[i].pc \in NotifyPath)
               => task[i].pc = "insertDetection" /\ task[i].event > 0]_vars
    /\ [][detection_event' # detection_event
            => \E i \in Tasks : task[i].pc = "insertEvent" /\ InsertEvent(i)]_vars

\* C28 witness: a task in production mode is at its second frame and enters
\* notifyObservers with the only event stored: one of its two frames had no
\* object and stored nothing.
C28_Witness ==
    \E i \in Tasks :
        /\ prod
        /\ task[i].pc = "notify"
        /\ task[i].iter = 2
        /\ task[i].event = 1
        /\ Cardinality(detection_event) = 1
        /\ alert = {} /\ mails = {}

\* The alert rows of an event and a subscription.
AlertRows(event, subscriptionId) ==
    {a \in alert : a.detection_event_id = event /\ a.subscription_id = subscriptionId}

\* C29 (as claimed): an evaluation that suppresses leaves the alert table and
\* the mails as they are; when the mail of an allowed evaluation is sent, the
\* alert table holds exactly one row of this event and of the observer's
\* subscription to the stream of the event, and no mail of this event to this
\* observer was sent before.
C29_AlertAndNotificationTogether ==
    /\ [](\A i \in Tasks :
            task[i].pc = "mail"
            => /\ Cardinality(AlertRows(task[i].event,
                                        SubscriptionTo(hba[i].email, deviceIdList[i]))) = 1
               /\ OwnMail(i) \notin mails)
    /\ [][\A i \in Tasks :
            (Decides(i) /\ task'[i].pc = "rows") => alert' = alert /\ mails' = mails]_vars

\* C30 (as claimed): the time an evaluation computes its cutoff from is the
\* capture time of the frame of its event, and every alert row carries the
\* created time of its detection event.
C30_NowIsCaptureTime ==
    /\ \A i \in Tasks :
          task[i].pc \in {"hbaLast", "hbaInsert", "mail"}
          => hba[i].captureTime = task[i].captureTime
    /\ \A a \in alert : \A e \in EventRows(a.detection_event_id) :
          a.created = e.created

\* The highest confidence among the entries of a non-empty sequence.
MaxConfidence(objs) ==
    CHOOSE c \in {objs[k].confidence : k \in DOMAIN objs} :
        \A k \in DOMAIN objs : objs[k].confidence <= c

\* What the loop of lines 366-408 holds in detectedObjects after its first k
\* rows: the loop reads nothing of the rows to come.
AfterRows(rows, k) == performDetection(SubSeq(rows, 1, k))

\* C31: what the fusion returns for a non-empty sequence of thresholded
\* candidates has the highest confidence of the candidates as its highest
\* confidence, and from each row of the pass to the next the objects held are
\* no fewer and the confidence at each place is no lower.
C31_FuseKeepsBestConfidence ==
    ( /\ Returned("performDetection")
      /\ call.rows # <<>>
      /\ Thresholded(call.rows) )
    => /\ ret[1] = AfterRows(call.rows, Len(call.rows))
       /\ ret[1] # <<>>
       /\ MaxConfidence(ret[1]) = MaxConfidence(call.rows)
       /\ \A k \in 0..(Len(call.rows) - 1) :
             LET before == AfterRows(call.rows, k)
                 after == AfterRows(call.rows, k + 1)
             IN  /\ Len(before) <= Len(after)
                 /\ \A p \in DOMAIN before :
                       before[p].confidence <= after[p].confidence

\* C31 witness: three thresholded candidates; the second, another box of no
\* higher confidence, overlaps the first and leaves it in place, the third, of
\* the highest confidence, overlaps it and takes its place.
C31_Witness ==
    /\ Returned("performDetection")
    /\ call.pass = 1
    /\ Len(call.rows) = 3
    /\ Thresholded(call.rows)
    /\ call.rows[2] # call.rows[1]
    /\ call.rows[2].confidence <= call.rows[1].confidence
    /\ call.rows[1].confidence < call.rows[3].confidence
    /\ AfterRows(call.rows, 2) = <<call.rows[1]>>
    /\ ret[1] = <<call.rows[3]>>

\* The objects of a sequence, as a set.
Objects(objs) == {objs[k] : k \in DOMAIN objs}

\* Two thresholded candidates of different confidences have been fused.
FusedDistinctPair ==
    /\ Returned("performDetection")
    /\ call.pass = 1
    /\ Len(call.rows) = 2
    /\ Thresholded(call.rows)
    /\ call.rows[1].confidence # call.rows[2].confidence

\* C32: the fusion of two thresholded candidates of different confidences
\* returns the same set of objects as the fusion of the two in the other order.
C32_FusePairOrderIndependent ==
    FusedDistinctPair =>
        Objects(ret[1]) = Objects(performDetection(<<call.rows[2], call.rows[1]>>))

\* C32 witness: the stronger candidate comes first and the weaker one overlaps
\* it; the one object returned is the stronger, as in the other order.
C32_Witness ==
    /\ FusedDistinctPair
    /\ call.rows[1].confidence > call.rows[2].confidence
    /\ call.rows[1].left # call.rows[2].left
    /\ ExceedsTreshold(bbIntersectionOverUnion(call.rows[2], call.rows[1]))
    /\ ret[1] = <<call.rows[1]>>
    /\ performDetection(<<call.rows[2], call.rows[1]>>) = <<call.rows[1]>>

====
